---- MODULE Spec2Model ----
(***************************************************************************)
(* Company-name inference (utils/company_extraction.py) and the account    *)
(* store behind the /api/auth routes (routers/auth.py).                     *)
(*                                                                         *)
(* A Python str is a sequence of one-character strings, so that slicing,   *)
(* str.lower, str.strip, str.split, str.endswith and str.startswith are    *)
(* computed character by character.  The characters are the ASCII ones and *)
(* the Greek sigmas, the one letter str.lower maps by its context.         *)
(***************************************************************************)
EXTENDS Integers, Sequences, FiniteSets, TLC

VARIABLES input, call, result, users, tokens, request, response, sessions

vars == <<input, call, result, users, tokens, request, response, sessions>>

\* ------------------------------------------------------------------ str

lowercase_letters == <<"a", "b", "c", "d", "e", "f", "g", "h", "i", "j", "k", "l", "m", "n", "o", "p", "q", "r", "s", "t", "u", "v", "w", "x", "y", "z", "σ">>
uppercase_letters == <<"A", "B", "C", "D", "E", "F", "G", "H", "I", "J", "K", "L", "M", "N", "O", "P", "Q", "R", "S", "T", "U", "V", "W", "X", "Y", "Z", "Σ">>

\* the lower-case sigma written at the end of a word
final_sigma == "ς"

\* str.isupper() of one character
isupper(c) == \E i \in DOMAIN uppercase_letters : uppercase_letters[i] = c

\* str.islower() of one character
islower(c) ==
    \/ \E i \in DOMAIN lowercase_letters : lowercase_letters[i] = c
    \/ c = final_sigma

char_lower(c) ==
    IF isupper(c)
    THEN lowercase_letters[CHOOSE i \in DOMAIN uppercase_letters : uppercase_letters[i] = c]
    ELSE c

char_upper(c) ==
    IF c = final_sigma THEN "Σ"
    ELSE IF islower(c)
    THEN uppercase_letters[CHOOSE i \in DOMAIN lowercase_letters : lowercase_letters[i] = c]
    ELSE c

SetMin(S) == CHOOSE x \in S : \A y \in S : x <= y
SetMax(S) == CHOOSE x \in S : \A y \in S : x >= y

\* characters with a case, and those str.lower skips when it looks for the
\* cased neighbours of a capital sigma (of the characters used here, the dot)
cased(c) == isupper(c) \/ islower(c)
case_ignorable == {"."}

\* the capital sigma at s[i] ends a word: a cased character before it, none
\* after it, case-ignorable characters skipped
ends_word(s, i) ==
    LET before == {j \in 1..(i - 1) : s[j] \notin case_ignorable}
        after == {j \in (i + 1)..Len(s) : s[j] \notin case_ignorable}
    IN  /\ before # {}
        /\ cased(s[SetMax(before)])
        /\ after = {} \/ ~cased(s[SetMin(after)])

\* str.lower()
lower(s) ==
    [i \in 1..Len(s) |->
        IF s[i] = "Σ" /\ ends_word(s, i) THEN final_sigma ELSE char_lower(s[i])]

\* the characters str.strip() removes
whitespace == {" ", "\t", "\n", "\r"}

\* str.strip()
strip(s) ==
    LET keep == {i \in 1..Len(s) : s[i] \notin whitespace}
    IN  IF keep = {} THEN <<>> ELSE SubSeq(s, SetMin(keep), SetMax(keep))

\* c in s, for a one-character c
contains(s, c) == \E i \in 1..Len(s) : s[i] = c

\* s.endswith(t)
endswith(s, t) == Len(t) <= Len(s) /\ SubSeq(s, Len(s) - Len(t) + 1, Len(s)) = t

\* s.startswith(t)
startswith(s, t) == Len(t) <= Len(s) /\ SubSeq(s, 1, Len(t)) = t

\* s.split(c), for a one-character separator c
RECURSIVE split(_, _)
split(s, c) ==
    LET at == {i \in 1..Len(s) : s[i] = c}
    IN  IF at = {} THEN <<s>>
        ELSE <<SubSeq(s, 1, SetMin(at) - 1)>>
             \o split(SubSeq(s, SetMin(at) + 1, Len(s)), c)

\* s.capitalize(): first character upper-cased, the rest lower-cased
capitalize(s) ==
    [i \in 1..Len(s) |-> IF i = 1 THEN char_upper(s[i]) ELSE lower(s)[i]]

\* ' '.join(ws)
RECURSIVE join(_)
join(ws) ==
    IF Len(ws) = 0 THEN <<>>
    ELSE IF Len(ws) = 1 THEN ws[1]
    ELSE ws[1] \o <<" ">> \o join(Tail(ws))

\* sorted(words, key=len, reverse=True): longest first, the sort is stable
RECURSIVE by_length_from(_, _)
by_length_from(words, n) ==
    IF n = 0 THEN SelectSeq(words, LAMBDA w : Len(w) = 0)
    ELSE SelectSeq(words, LAMBDA w : Len(w) = n) \o by_length_from(words, n - 1)

sorted_longest_first(words) ==
    IF Len(words) = 0 THEN <<>>
    ELSE by_length_from(words, SetMax({Len(words[i]) : i \in DOMAIN words}))

\* a raised exception and a returned value
Raise(e) == [raised |-> TRUE, error |-> e, value |-> <<>>]
Return(v) == [raised |-> FALSE, error |-> "", value |-> v]

\* ------------------------------------------------- domain extraction

\* faulty variants of extract_domain_from_email: split('@')[1] and split('@')[0] for
\* split('@')[-1]
extract_domain_after_first_at(email) ==
    LET email_lower == strip(lower(email))
    IN  IF ~contains(email_lower, "@")
        THEN Raise("ValueError: Invalid email address")
        ELSE Return(split(email_lower, "@")[2])

extract_domain_local_part(email) ==
    LET email_lower == strip(lower(email))
    IN  IF ~contains(email_lower, "@")
        THEN Raise("ValueError: Invalid email address")
        ELSE Return(split(email_lower, "@")[1])

extract_domain_from_email(email) ==
    LET email_lower == strip(lower(email))
    IN  IF ~contains(email_lower, "@")
        THEN Raise("ValueError: Invalid email address")
        ELSE LET parts == split(email_lower, "@")
             IN  Return(parts[Len(parts)])

\* ------------------------------------------------------ segmentation

RECURSIVE camel_scan(_, _, _, _)
camel_scan(text, i, words, current_word) ==
    IF i > Len(text)
    THEN IF current_word # <<>> THEN Append(words, lower(current_word)) ELSE words
    ELSE IF isupper(text[i]) /\ i > 1
         THEN camel_scan(text, i + 1,
                         IF current_word # <<>>
                         THEN Append(words, lower(current_word)) ELSE words,
                         <<text[i]>>)
         ELSE camel_scan(text, i + 1, words, Append(current_word, text[i]))

\* faulty variant of split_camel_case: the last word is not added
RECURSIVE camel_scan_last_word_lost(_, _, _, _)
camel_scan_last_word_lost(text, i, words, current_word) ==
    IF i > Len(text)
    THEN words
    ELSE IF isupper(text[i]) /\ i > 1
         THEN camel_scan_last_word_lost(text, i + 1,
                         IF current_word # <<>>
                         THEN Append(words, lower(current_word)) ELSE words,
                         <<text[i]>>)
         ELSE camel_scan_last_word_lost(text, i + 1, words, Append(current_word, text[i]))

split_camel_case_last_word_lost(text) ==
    IF text = <<>> THEN <<>> ELSE camel_scan_last_word_lost(text, 1, <<>>, <<>>)

split_camel_case(text) ==
    IF text = <<>> THEN <<>> ELSE camel_scan(text, 1, <<>>, <<>>)

common_suffixes == <<
    <<"c", "o", "r", "p">>, <<"c", "o", "r", "p", "o", "r", "a", "t", "i", "o", "n">>, <<"i", "n", "c">>, <<"i", "n", "c", "o", "r", "p", "o", "r", "a", "t", "e", "d">>, <<"l", "l", "c">>, <<"l", "t", "d">>, <<"l", "i", "m", "i", "t", "e", "d">>,
    <<"t", "e", "c", "h">>, <<"t", "e", "c", "h", "s">>, <<"s", "o", "l", "u", "t", "i", "o", "n", "s">>, <<"s", "y", "s", "t", "e", "m", "s">>, <<"s", "e", "r", "v", "i", "c", "e", "s">>, <<"g", "r", "o", "u", "p">>, <<"i", "n", "d", "u", "s", "t", "r", "i", "e", "s">>,
    <<"e", "n", "g", "i", "n", "e", "e", "r", "i", "n", "g">>, <<"e", "n", "g">>, <<"i", "n", "t", "e", "r", "n", "a", "t", "i", "o", "n", "a", "l">>, <<"g", "l", "o", "b", "a", "l">>, <<"e", "n", "t", "e", "r", "p", "r", "i", "s", "e", "s">>, <<"v", "e", "n", "t", "u", "r", "e", "s">> >>

common_prefixes == <<
    <<"a", "l", "p", "h", "a">>, <<"b", "e", "t", "a">>, <<"g", "a", "m", "m", "a">>, <<"d", "e", "l", "t", "a">>, <<"t", "e", "c", "h">>, <<"d", "i", "g", "i", "t", "a", "l">>, <<"s", "m", "a", "r", "t">>, <<"g", "l", "o", "b", "a", "l">>,
    <<"i", "n", "t", "e", "r", "n", "a", "t", "i", "o", "n", "a", "l">>, <<"a", "d", "v", "a", "n", "c", "e", "d">>, <<"p", "r", "e", "m", "i", "u", "m">>, <<"e", "l", "i", "t", "e">>, <<"p", "r", "o">>, <<"m", "a", "x">>, <<"u", "l", "t", "r", "a">> >>

sorted_suffixes == sorted_longest_first(common_suffixes)
sorted_prefixes == sorted_longest_first(common_prefixes)

\* the first loop: positions of the sorted suffixes at which the loop returns
suffix_hits(text_lower) ==
    {i \in DOMAIN sorted_suffixes :
        /\ endswith(text_lower, sorted_suffixes[i])
        /\ Len(text_lower) > Len(sorted_suffixes[i])
        /\ SubSeq(text_lower, 1, Len(text_lower) - Len(sorted_suffixes[i])) # <<>>}

\* the second loop: positions of the sorted prefixes at which the loop returns
prefix_hits(text_lower) ==
    {i \in DOMAIN sorted_prefixes :
        /\ startswith(text_lower, sorted_prefixes[i])
        /\ Len(text_lower) > Len(sorted_prefixes[i])
        /\ SubSeq(text_lower, Len(sorted_prefixes[i]) + 1, Len(text_lower)) # <<>>}

\* faulty variants of split_concatenated_words: an early return of [] for the empty
\* text; the prefix loop run before the suffix loop; a fallback of [text]
split_concatenated_words_empty_guard(text) ==
    LET text_lower == lower(text)
        sh == suffix_hits(text_lower)
        ph == prefix_hits(text_lower)
    IN  IF text = <<>> THEN <<>>
        ELSE IF sh # {}
        THEN LET suffix == sorted_suffixes[SetMin(sh)]
             IN  <<SubSeq(text_lower, 1, Len(text_lower) - Len(suffix)), suffix>>
        ELSE IF ph # {}
        THEN LET prefix == sorted_prefixes[SetMin(ph)]
             IN  <<prefix, SubSeq(text_lower, Len(prefix) + 1, Len(text_lower))>>
        ELSE LET camel_words == split_camel_case(text)
             IN  IF Len(camel_words) > 1 THEN camel_words ELSE <<lower(text)>>

split_concatenated_words_prefix_first(text) ==
    LET text_lower == lower(text)
        sh == suffix_hits(text_lower)
        ph == prefix_hits(text_lower)
    IN  IF ph # {}
        THEN LET prefix == sorted_prefixes[SetMin(ph)]
             IN  <<prefix, SubSeq(text_lower, Len(prefix) + 1, Len(text_lower))>>
        ELSE IF sh # {}
        THEN LET suffix == sorted_suffixes[SetMin(sh)]
             IN  <<SubSeq(text_lower, 1, Len(text_lower) - Len(suffix)), suffix>>
        ELSE LET camel_words == split_camel_case(text)
             IN  IF Len(camel_words) > 1 THEN camel_words ELSE <<lower(text)>>

split_concatenated_words_raw_fallback(text) ==
    LET text_lower == lower(text)
        sh == suffix_hits(text_lower)
        ph == prefix_hits(text_lower)
    IN  IF sh # {}
        THEN LET suffix == sorted_suffixes[SetMin(sh)]
             IN  <<SubSeq(text_lower, 1, Len(text_lower) - Len(suffix)), suffix>>
        ELSE IF ph # {}
        THEN LET prefix == sorted_prefixes[SetMin(ph)]
             IN  <<prefix, SubSeq(text_lower, Len(prefix) + 1, Len(text_lower))>>
        ELSE LET camel_words == split_camel_case(text)
             IN  IF Len(camel_words) > 1 THEN camel_words ELSE <<text>>

split_concatenated_words(text) ==
    LET text_lower == lower(text)
        sh == suffix_hits(text_lower)
        ph == prefix_hits(text_lower)
    IN  IF sh # {}
        THEN LET suffix == sorted_suffixes[SetMin(sh)]
             IN  <<SubSeq(text_lower, 1, Len(text_lower) - Len(suffix)), suffix>>
        ELSE IF ph # {}
        THEN LET prefix == sorted_prefixes[SetMin(ph)]
             IN  <<prefix, SubSeq(text_lower, Len(prefix) + 1, Len(text_lower))>>
        ELSE LET camel_words == split_camel_case(text)
             IN  IF Len(camel_words) > 1 THEN camel_words ELSE <<lower(text)>>

\* -------------------------------------------------- display name

tlds == << <<".", "c", "o", "m">>, <<".", "n", "e", "t">>, <<".", "o", "r", "g">>, <<".", "c", "o">>, <<".", "i", "o">>, <<".", "u", "s">>, <<".", "u", "k">>, <<".", "i", "n">>, <<".", "a", "u">>,
           <<".", "c", "o", ".", "u", "k">>, <<".", "c", "o", "m", ".", "a", "u">> >>

sorted_tlds == sorted_longest_first(tlds)

\* faulty variant of strip_tld: the TLD list walked in its listed order, not longest
\* first
strip_tld_listed_order(name) ==
    LET hits == {i \in DOMAIN tlds : endswith(lower(name), tlds[i])}
    IN  IF hits = {} THEN name
        ELSE SubSeq(name, 1, Len(name) - Len(tlds[SetMin(hits)]))

\* the TLD loop: strip the first sorted TLD the name ends with, then break
strip_tld(name) ==
    LET name_lower == lower(name)
        hits == {i \in DOMAIN sorted_tlds : endswith(name_lower, sorted_tlds[i])}
    IN  IF hits = {} THEN name
        ELSE SubSeq(name, 1, Len(name) - Len(sorted_tlds[SetMin(hits)]))

\* faulty variant of root_label: no collapse, the whole name kept
root_label_whole_name(name) == name

\* faulty variant of root_label: parts[0] for parts[-1]
root_label_first(name) ==
    LET parts == split(name, ".")
    IN  IF Len(parts) > 1 THEN parts[1] ELSE name

\* parts = name.split('.'); if len(parts) > 1: name = parts[-1]
root_label(name) ==
    LET parts == split(name, ".")
    IN  IF Len(parts) > 1 THEN parts[Len(parts)] ELSE name

\* words of the parts, in order: the loop over name.split(separator)
RECURSIVE words_of_parts(_)
words_of_parts(parts) ==
    IF Len(parts) = 0 THEN <<>>
    ELSE (IF parts[1] # <<>> THEN split_concatenated_words(parts[1]) ELSE <<>>)
         \o words_of_parts(Tail(parts))

\* ' '.join(word.capitalize() for word in words if word)
capitalize_and_join(words) ==
    LET kept == SelectSeq(words, LAMBDA w : w # <<>>)
    IN  join([i \in 1..Len(kept) |-> capitalize(kept[i])])

\* faulty variant of format_domain_as_display_name: '_' looked for before '-'
format_domain_underscore_first(domain) ==
    LET name == root_label(strip_tld(domain))
    IN  IF contains(name, "-") \/ contains(name, "_")
        THEN LET separator == IF contains(name, "_") THEN "_" ELSE "-"
             IN  capitalize_and_join(words_of_parts(split(name, separator)))
        ELSE capitalize_and_join(split_concatenated_words(name))

format_domain_as_display_name(domain) ==
    LET name == root_label(strip_tld(domain))
    IN  IF contains(name, "-") \/ contains(name, "_")
        THEN LET separator == IF contains(name, "-") THEN "-" ELSE "_"
             IN  capitalize_and_join(words_of_parts(split(name, separator)))
        ELSE capitalize_and_join(split_concatenated_words(name))

\* ------------------------------------------------------- resolver

\* faulty variant of extract_company_from_email: the key cut down to the name before the TLD
extract_company_root_key(email) ==
    LET domain == extract_domain_from_email(email)
    IN  IF domain.raised THEN domain
        ELSE Return([domain |-> domain.value,
                     normalized_company |-> strip_tld(domain.value),
                     display_name |-> format_domain_as_display_name(domain.value)])

extract_company_from_email(email) ==
    LET domain == extract_domain_from_email(email)
    IN  IF domain.raised THEN domain
        ELSE Return([domain |-> domain.value,
                     normalized_company |-> domain.value,
                     display_name |-> format_domain_as_display_name(domain.value)])

normalize_company_domain(domain) == strip(lower(domain))

\* ------------------------------------------------------------ inputs

MaxEmailParts == 5
MaxDomainParts == 5
MaxTokenParts == 4

\* every concatenation of at most n of the fragments
RECURSIVE Concats(_, _)
Concats(frags, n) ==
    IF n = 0 THEN {<<>>}
    ELSE LET shorter == Concats(frags, n - 1)
         IN  shorter \cup {s \o f : s \in shorter, f \in frags}

EmailFragments == {<<"a">>, <<"B">>, <<"@">>, <<" ">>, <<".", "c", "o", "m">>}
DomainFragments == {<<"a">>, <<"-">>, <<"_">>, <<".">>, <<".", "c", "o">>, <<".", "u", "k">>, <<"e", "n", "g">>}
TokenFragments == {<<"a">>, <<"B">>, <<"s">>, <<"m", "a", "x">>, <<"e", "n", "g">>, <<"t", "e", "c", "h">>}

EmailExamples == {<<"a", "@", "a", "c", "m", "e", "c", "o", "r", "p", ".", "c", "o", "m">>, <<"J", "o", "h", "n", ".", "D", "o", "e", "@", "A", "C", "M", "E", "c", "o", "r", "p", ".", "C", "O", "M">>, <<"j", "o", "h", "n", ".", "d", "o", "e", "@", "a", "c", "m", "e", "c", "o", "r", "p", ".", "c", "o", "m">>,
                  <<"a", "@", "b", "Σ">>}
DomainExamples == {<<"a", "c", "m", "e", "c", "o", "r", "p", ".", "c", "o", "m">>, <<"a", "l", "p", "h", "a", "-", "e", "n", "g", "i", "n", "e", "e", "r", "i", "n", "g", ".", "c", "o", "m">>, <<"t", "e", "c", "h", "S", "o", "l", "u", "t", "i", "o", "n", "s", ".", "c", "o", "m">>,
                   <<"e", "n", "g", ".", "a", "c", "m", "e", "c", "o", "r", "p", ".", "c", "o", "m">>, <<"f", "o", "o", ".", "c", "o", ".", "u", "k">>, <<"f", "o", "o", ".", "C", "O", ".", "U", "K">>, <<"a", ".", "C", "O", "M">>,
                   <<"a", ".", "c", "o", "m", ".", "a", "u">>, <<"m", "a", "i", "l", ".", "b", "i", "g", "c", "o", "r", "p", ".", "c", "o", ".", "u", "k">>,
                   <<"c", "o", "m">>, <<"c", "o", ".", "u", "k">>, <<"a", "c", "m", "e">>, <<"a", "Σ", ".", "c", "o", "m">>}
TokenExamples == {<<"a", "c", "m", "e", "c", "o", "r", "p">>, <<"a", "l", "p", "h", "a", "c", "o", "r", "p">>, <<"t", "e", "c", "h", "s", "o", "l", "u", "t", "i", "o", "n", "s">>, <<"a", "l", "p", "h", "a", "E", "n", "g", "i", "n", "e", "e", "r", "i", "n", "g">>,
                  <<"c", "o", "r", "p", "o", "r", "a", "t", "i", "o", "n">>, <<"i", "n", "t", "e", "r", "n", "a", "t", "i", "o", "n", "a", "l">>,
                  <<"Σ">>, <<"a", "Σ">>, <<"a", "Σ", "b">>, <<"Σ", "Σ">>, <<"a", "Σ", "Σ">>, <<"t", "e", "c", "h", "Σ">>, <<"Σ", "c", "o", "r", "p">>, <<"a", "B", "Σ", "s">>}

MaxSubdomainParts == 4
SubdomainLabels == {<<"e", "n", "g">>, <<"m", "a", "i", "l", ".", "e", "n", "g">>}
SubdomainInputs == Concats(DomainFragments, MaxSubdomainParts) \cup DomainExamples

Emails == Concats(EmailFragments, MaxEmailParts) \cup EmailExamples
Domains == Concats(DomainFragments, MaxDomainParts) \cup DomainExamples
\* the dictionary words themselves are tokens too
DictionaryWords ==
    {common_suffixes[i] : i \in DOMAIN common_suffixes}
    \cup {common_prefixes[i] : i \in DOMAIN common_prefixes}

Tokens == Concats(TokenFragments, MaxTokenParts) \cup TokenExamples \cup DictionaryWords

Inputs ==
    [kind : {"email"}, text : Emails]
    \cup [kind : {"domain"}, text : Domains]
    \cup [kind : {"token"}, text : Tokens]

NoInput == [kind |-> "none", text |-> <<>>]
NoResult == Return(<<>>)
NoRequest == [op |-> "none"]
NoResponse == [status |-> 0, detail |-> ""]

\* the requests in flight at once, each with a database session of its own
MaxConcurrent == 2
Requests == 1..MaxConcurrent
NoSessions == [p \in Requests |-> [pc |-> "idle", request |-> NoRequest,
                                    response |-> NoResponse]]

\* --------------------------------------------- the library, call by call

Init ==
    /\ input \in Inputs
    /\ call = "none"
    /\ result = NoResult
    /\ users = {}
    /\ tokens = {}
    /\ request = NoRequest
    /\ response = NoResponse
    /\ sessions = NoSessions

store_vars == <<users, tokens, request, response, sessions>>

ExtractDomain ==
    /\ call = "none"
    /\ input.kind = "email"
    /\ call' = "extract_domain_from_email"
    /\ result' = extract_domain_from_email(input.text)
    /\ UNCHANGED <<input, store_vars>>

\* the domain just extracted is extracted again from "x@" + domain
ReExtractDomain ==
    /\ call = "extract_domain_from_email"
    /\ ~result.raised
    /\ call' = "re_extract"
    /\ result' = [first |-> result.value,
                  second |-> extract_domain_from_email(<<"x", "@">> \o result.value)]
    /\ UNCHANGED <<input, store_vars>>

ExtractCompany ==
    /\ call = "none"
    /\ input.kind = "email"
    /\ call' = "extract_company_from_email"
    /\ result' = extract_company_from_email(input.text)
    /\ UNCHANGED <<input, store_vars>>

\* the call returns its value; the local `name` is recorded as it stands after
\* the TLD loop and after the subdomain collapse
FormatDisplayName ==
    /\ call = "none"
    /\ input.kind = "domain"
    /\ call' = "format_domain_as_display_name"
    /\ LET name == strip_tld(input.text)
       IN  result' = [raised |-> FALSE, error |-> "",
                      value |-> format_domain_as_display_name(input.text),
                      name_after_tld |-> name,
                      name_after_collapse |-> root_label(name)]
    /\ UNCHANGED <<input, store_vars>>

\* one or two subdomain labels are put in front of the domain just formatted
\* and the result is formatted too
FormatWithSubdomains ==
    /\ call = "format_domain_as_display_name"
    /\ \E labels \in SubdomainLabels :
         /\ call' = "format_with_subdomains"
         /\ result' = [first |-> result.value,
                       labels |-> labels,
                       second |-> format_domain_as_display_name(
                                      labels \o <<".">> \o input.text)]
    /\ UNCHANGED <<input, store_vars>>

SplitWords ==
    /\ call = "none"
    /\ input.kind = "token"
    /\ call' = "split_concatenated_words"
    /\ result' = Return(split_concatenated_words(input.text))
    /\ UNCHANGED <<input, store_vars>>

Next ==
    \/ ExtractDomain
    \/ ReExtractDomain
    \/ ExtractCompany
    \/ FormatDisplayName
    \/ SplitWords

Spec == Init /\ [][Next]_vars

\* formatting a domain, then the same domain behind subdomain labels
InitSubdomains ==
    /\ input \in [kind : {"domain"}, text : SubdomainInputs]
    /\ call = "none"
    /\ result = NoResult
    /\ users = {}
    /\ tokens = {}
    /\ request = NoRequest
    /\ response = NoResponse
    /\ sessions = NoSessions

NextSubdomains ==
    \/ FormatDisplayName
    \/ FormatWithSubdomains

SpecSubdomains == InitSubdomains /\ [][NextSubdomains]_vars

\* ------------------------------------------------------ account store

\* an Optional[...] field or a nullable column: None, or a value
None == <<>>
Some(v) == <<v>>

MaxUsers == 2

personal_domains == {
    <<"g", "m", "a", "i", "l", ".", "c", "o", "m">>, <<"h", "o", "t", "m", "a", "i", "l", ".", "c", "o", "m">>, <<"y", "a", "h", "o", "o", ".", "c", "o", "m">>, <<"y", "a", "h", "o", "o", ".", "c", "o", ".", "u", "k">>, <<"y", "a", "h", "o", "o", ".", "c", "o", ".", "i", "n">>,
    <<"o", "u", "t", "l", "o", "o", "k", ".", "c", "o", "m">>, <<"l", "i", "v", "e", ".", "c", "o", "m">>, <<"m", "s", "n", ".", "c", "o", "m">>, <<"a", "o", "l", ".", "c", "o", "m">>, <<"i", "c", "l", "o", "u", "d", ".", "c", "o", "m">>,
    <<"m", "a", "i", "l", ".", "c", "o", "m">>, <<"p", "r", "o", "t", "o", "n", "m", "a", "i", "l", ".", "c", "o", "m">>, <<"z", "o", "h", "o", ".", "c", "o", "m">>, <<"y", "a", "n", "d", "e", "x", ".", "c", "o", "m">>, <<"g", "m", "x", ".", "c", "o", "m">> }

\* email_lower.split('@')[-1] if '@' in email_lower else ''
domain_of(email_lower) ==
    IF contains(email_lower, "@")
    THEN LET parts == split(email_lower, "@") IN parts[Len(parts)]
    ELSE <<>>

\* the field validator of SignupRequest.email
validate_work_email(email) ==
    LET email_lower == lower(email)
    IN  IF domain_of(email_lower) \in personal_domains
        THEN Raise("ValueError: Personal email accounts are not allowed")
        ELSE Return(email_lower)

\* the model validator of SignupRequest
validate_referral_fields(req) ==
    ~(req.was_referred = "yes" /\ req.referrer_name = None /\ req.referrer_email = None)

get_password_hash(password) == <<"bcrypt">> \o password

verify_password(plain_password, hashed_password) ==
    hashed_password = get_password_hash(plain_password)

create_access_token(data) == data

SignupEmails == {<<"a", "@", "a", "c", "m", "e", "c", "o", "r", "p", ".", "c", "o", "m">>, <<"A", "@", "A", "c", "m", "e", "C", "o", "r", "p", ".", "c", "o", "m">>, <<"b", "@", "e", "n", "g", ".", "a", "c", "m", "e", "c", "o", "r", "p", ".", "c", "o", "m">>,
                 <<"c", "@", "g", "m", "a", "i", "l", ".", "c", "o", "m">>, <<"d", "@", "f", "o", "o", ".", "c", "o", ".", "u", "k">>, <<"e", "@", "a", "l", "p", "h", "a", "-", "e", "n", "g", "i", "n", "e", "e", "r", "i", "n", "g", ".", "c", "o", "m">>}
Passwords == {<<"p", "a", "s", "s", "w", "o", "r", "d", "1">>, <<"p", "a", "s", "s", "w", "o", "r", "d", "2">>}

SignupRequests ==
    [op : {"signup"}, email : SignupEmails, password : Passwords, name : {<<"n">>},
     company : {<<"A", "c", "m", "e">>}, department : {None, Some(<<"r", "n", "d">>)}, role : {<<"e", "n", "g", "i", "n", "e", "e", "r">>},
     was_referred : {"yes", "no"}, referrer_name : {None, Some(<<"r">>)},
     referrer_email : {None, Some(<<"R", "@", "a", "c", "m", "e", "c", "o", "r", "p", ".", "c", "o", "m">>)}]

LoginRequests == [op : {"login"}, email : SignupEmails, password : Passwords]

ForgedToken == [sub |-> 0, email |-> <<"a", "@", "a", "c", "m", "e", "c", "o", "r", "p", ".", "c", "o", "m">>]

\* User(...) as signup builds it: the keyword arguments of the call, every other
\* column left unset
new_user(id, user_data, email_lower) ==
    [id |-> id,
     email |-> email_lower,
     password |-> get_password_hash(user_data.password),
     name |-> user_data.name,
     company_domain |-> None,
     company_display_name |-> None,
     company |-> Some(user_data.company),
     department |-> user_data.department,
     role |-> user_data.role,
     was_referred |-> user_data.was_referred,
     referrer_name |-> IF user_data.was_referred = "yes"
                       THEN user_data.referrer_name ELSE None,
     referrer_email |-> IF user_data.was_referred = "yes"
                           /\ user_data.referrer_email # None
                        THEN Some(lower(user_data.referrer_email[1])) ELSE None]

\* the constraints of the users table the commit enforces: nullable=False on
\* company_domain and company_display_name, unique=True on email
not_null_ok(u) == u.company_domain # None /\ u.company_display_name # None
unique_ok(rows, u) == \A v \in rows : v.email # u.email /\ v.id # u.id

InitStore ==
    /\ input = NoInput
    /\ call = "none"
    /\ result = NoResult
    /\ users = {}
    /\ tokens = {}
    /\ request = NoRequest
    /\ response = NoResponse
    /\ sessions = NoSessions

Respond(status, detail) == [status |-> status, detail |-> detail]

\* POST /api/auth/signup: request validation, then the handler to its return
signup(user_data) ==
    /\ Cardinality(users) < MaxUsers
    /\ request' = user_data
    /\ LET checked == validate_work_email(user_data.email)
       IN  IF checked.raised \/ ~validate_referral_fields(user_data)
           THEN /\ response' = Respond(422, "validation error")
                /\ UNCHANGED <<users, tokens>>
           ELSE
           LET email_lower == lower(checked.value)
               domain == domain_of(email_lower)
           IN  IF domain \in personal_domains
               THEN /\ response' = Respond(400, "Personal email accounts are not allowed")
                    /\ UNCHANGED <<users, tokens>>
               ELSE IF \E u \in users : u.email = email_lower
               THEN /\ response' = Respond(409, "User with this email already exists")
                    /\ UNCHANGED <<users, tokens>>
               ELSE IF user_data.was_referred = "yes"
                       /\ user_data.referrer_name = None
                       /\ user_data.referrer_email = None
               THEN /\ response' = Respond(400, "Please provide either referrer name or email")
                    /\ UNCHANGED <<users, tokens>>
               ELSE \E id \in (1..MaxUsers) \ {u.id : u \in users} :
                    LET row == new_user(id, user_data, email_lower)
                    IN  IF not_null_ok(row) /\ unique_ok(users, row)
                        THEN /\ users' = users \cup {row}
                             /\ response' = Respond(201, "created")
                             /\ UNCHANGED tokens
                        ELSE /\ response' = Respond(500, "IntegrityError")
                             /\ UNCHANGED <<users, tokens>>
    /\ UNCHANGED <<input, call, result, sessions>>

\* POST /api/auth/login
login(login_data) ==
    /\ request' = login_data
    /\ LET found == {u \in users : u.email = lower(login_data.email)}
       IN  IF found = {}
           THEN /\ response' = Respond(401, "Invalid email or password")
                /\ UNCHANGED tokens
           ELSE LET user == CHOOSE u \in found : TRUE
                IN  IF ~verify_password(login_data.password, user.password)
                    THEN /\ response' = Respond(401, "Invalid email or password")
                         /\ UNCHANGED tokens
                    ELSE /\ tokens' = tokens \cup
                              {create_access_token([sub |-> user.id, email |-> user.email])}
                         /\ response' = Respond(200, "Login successful")
    /\ UNCHANGED <<users, input, call, result, sessions>>

\* GET /api/auth/me with a bearer token: get_current_user, then the handler
get_current_user_info(token) ==
    /\ request' = [op |-> "me", token |-> token]
    /\ IF token \notin tokens \/ ~(\E u \in users : u.id = token.sub)
       THEN response' = Respond(401, "Could not validate credentials")
       ELSE response' = Respond(200, "current user")
    /\ UNCHANGED <<users, tokens, input, call, result, sessions>>

Signup == \E user_data \in SignupRequests : signup(user_data)
Login == \E login_data \in LoginRequests : login(login_data)
Me == \E token \in tokens \cup {ForgedToken} : get_current_user_info(token)

NextStore ==
    \/ Signup
    \/ Login
    \/ Me

SpecStore == InitStore /\ [][NextStore]_vars


\* ---------------------------------------- signup, request against request

\* the handler runs in a worker thread per request: its query (line 32) and
\* its commit (line 62) are two statements of the request's own session, and
\* other requests' statements may fall between them

ConcurrentEmails == {<<"a", "@", "a", "c", "m", "e", "c", "o", "r", "p", ".", "c", "o", "m">>, <<"A", "@", "A", "c", "m", "e", "C", "o", "r", "p", ".", "c", "o", "m">>, <<"d", "@", "f", "o", "o", ".", "c", "o", ".", "u", "k">>,
                     <<"c", "@", "g", "m", "a", "i", "l", ".", "c", "o", "m">>}

ConcurrentSignups ==
    {r \in SignupRequests :
        /\ r.email \in ConcurrentEmails
        /\ r.password = <<"p", "a", "s", "s", "w", "o", "r", "d", "1">>
        /\ r.department = None
        /\ r.referrer_name = None}

InitConcurrent == InitStore

Finish(p, status, detail) ==
    sessions' = [sessions EXCEPT ![p].pc = "done",
                                 ![p].response = Respond(status, detail)]

\* request validation and lines 17-29: the work-email checks
signup_validate(p, user_data) ==
    /\ sessions[p].pc = "idle"
    /\ LET checked == validate_work_email(user_data.email)
       IN  IF checked.raised \/ ~validate_referral_fields(user_data)
           THEN sessions' = [sessions EXCEPT ![p].pc = "done",
                                             ![p].request = user_data,
                                             ![p].response = Respond(422, "validation error")]
           ELSE IF domain_of(lower(checked.value)) \in personal_domains
           THEN sessions' = [sessions EXCEPT ![p].pc = "done",
                                             ![p].request = user_data,
                                             ![p].response =
                                                 Respond(400, "Personal email accounts are not allowed")]
           ELSE sessions' = [sessions EXCEPT ![p].pc = "query",
                                             ![p].request = user_data]
    /\ UNCHANGED <<users, tokens, request, response, input, call, result>>

\* lines 31-45: the query for an existing user, then the referral check
signup_query(p) ==
    /\ sessions[p].pc = "query"
    /\ LET user_data == sessions[p].request
           email_lower == lower(user_data.email)
       IN  IF \E u \in users : u.email = email_lower
           THEN Finish(p, 409, "User with this email already exists")
           ELSE IF user_data.was_referred = "yes"
                   /\ user_data.referrer_name = None
                   /\ user_data.referrer_email = None
           THEN Finish(p, 400, "Please provide either referrer name or email")
           ELSE sessions' = [sessions EXCEPT ![p].pc = "commit"]
    /\ UNCHANGED <<users, tokens, request, response, input, call, result>>

\* lines 47-65: the row is built, added and committed; the generated uuid is
\* the request's own
signup_commit(p) ==
    /\ sessions[p].pc = "commit"
    /\ LET user_data == sessions[p].request
           row == new_user(<<"uuid", p>>, user_data, lower(user_data.email))
       IN  IF not_null_ok(row) /\ unique_ok(users, row)
           THEN /\ users' = users \cup {row}
                /\ Finish(p, 201, "created")
           ELSE /\ Finish(p, 500, "IntegrityError")
                /\ UNCHANGED users
    /\ UNCHANGED <<tokens, request, response, input, call, result>>

SignupValidate == \E p \in Requests : \E user_data \in ConcurrentSignups : signup_validate(p, user_data)
SignupQuery == \E p \in Requests : signup_query(p)
SignupCommit == \E p \in Requests : signup_commit(p)

NextConcurrent ==
    \/ SignupValidate
    \/ SignupQuery
    \/ SignupCommit

SpecConcurrent == InitConcurrent /\ [][NextConcurrent]_vars

\* -------------------------------------------------------- properties

has_upper(s) == \E i \in 1..Len(s) : isupper(s[i])
has_alpha(s) == \E i \in 1..Len(s) : isupper(s[i]) \/ islower(s[i])
last_index(s, c) == SetMax({i \in 1..Len(s) : s[i] = c})
after_last(s, c) ==
    IF contains(s, c) THEN SubSeq(s, last_index(s, c) + 1, Len(s)) ELSE s
only_char(s, c) == \A i \in 1..Len(s) : s[i] = c
longest(S) == CHOOSE w \in S : \A v \in S : Len(v) <= Len(w)
suffix_words == {common_suffixes[i] : i \in DOMAIN common_suffixes}
prefix_words == {common_prefixes[i] : i \in DOMAIN common_prefixes}
suffix_matches(t) ==
    suffix_words \cap
    {SubSeq(t, k, Len(t)) : k \in 2..Len(t)}
prefix_matches(t) ==
    prefix_words \cap
    {SubSeq(t, 1, k) : k \in 1..(Len(t) - 1)}

\* C1: extract_company_from_email(e) raises the invalid-email error exactly
\* when extract_domain_from_email(e) raises it; otherwise it returns the record
\* whose domain is extract_domain_from_email(e), whose normalized_company is
\* that same domain and whose display_name is
\* format_domain_as_display_name(domain); "a@acmecorp.com" gives
\* "acmecorp.com", "acmecorp.com", "Acme Corp".
C1_ResolverContract ==
    call = "extract_company_from_email" =>
        LET d == extract_domain_from_email(input.text)
        IN  /\ result.raised = d.raised
            /\ result.raised => result.error = "ValueError: Invalid email address"
            /\ ~result.raised =>
                 /\ result.value.domain = d.value
                 /\ result.value.normalized_company = d.value
                 /\ result.value.display_name = format_domain_as_display_name(d.value)
            /\ input.text = <<"a", "@", "a", "c", "m", "e", "c", "o", "r", "p", ".", "c", "o", "m">> =>
                 result.value = [domain |-> <<"a", "c", "m", "e", "c", "o", "r", "p", ".", "c", "o", "m">>,
                                 normalized_company |-> <<"a", "c", "m", "e", "c", "o", "r", "p", ".", "c", "o", "m">>,
                                 display_name |-> <<"A", "c", "m", "e", " ", "C", "o", "r", "p">>]

C1_Witness ==
    /\ call = "extract_company_from_email"
    /\ input.text = <<"a", "@", "a", "c", "m", "e", "c", "o", "r", "p", ".", "c", "o", "m">>
    /\ ~result.raised
    /\ result.value.display_name = <<"A", "c", "m", "e", " ", "C", "o", "r", "p">>

\* C2: extract_domain_from_email(e) raises the invalid-email error if and only
\* if e contains no '@'; otherwise it returns what follows the last '@' of e
\* trimmed and lower-cased, which holds no '@' and no upper-case letter;
\* "John.Doe@ACMEcorp.COM" gives "acmecorp.com".
C2_ExtractDomainContract ==
    call = "extract_domain_from_email" =>
        LET t == strip(lower(input.text))
        IN  /\ result.raised <=> ~contains(input.text, "@")
            /\ result.raised => result.error = "ValueError: Invalid email address"
            /\ ~result.raised =>
                 /\ result.value = SubSeq(t, last_index(t, "@") + 1, Len(t))
                 /\ ~contains(result.value, "@")
                 /\ ~has_upper(result.value)
            /\ input.text = <<"J", "o", "h", "n", ".", "D", "o", "e", "@", "A", "C", "M", "E", "c", "o", "r", "p", ".", "C", "O", "M">> => result.value = <<"a", "c", "m", "e", "c", "o", "r", "p", ".", "c", "o", "m">>

C2_Witness ==
    /\ call = "extract_domain_from_email"
    /\ input.text = <<"@", "B", "@", " ", "a">>
    /\ result = Return(<<" ", "a">>)

\* C3: format_domain_as_display_name(d) contains none of '@', '.', '-', '_'
\* and no two consecutive spaces, for every domain d.
C3_NoSeparatorsInDisplayName ==
    call = "format_domain_as_display_name" =>
        /\ \A c \in {"@", ".", "-", "_"} : ~contains(result.value, c)
        /\ \A i \in 1..(Len(result.value) - 1) :
             ~(result.value[i] = " " /\ result.value[i + 1] = " ")

\* C4 as stated: split_concatenated_words(t) returns lower-case words, at least
\* one when t is non-empty, and the empty sequence when t is the empty string.
C4_EmptyTokenGivesNoWords ==
    call = "split_concatenated_words" =>
        /\ \A i \in 1..Len(result.value) : ~has_upper(result.value[i])
        /\ input.text # <<>> => Len(result.value) >= 1
        /\ input.text = <<>> => result.value = <<>>

\* C4 as amended: split_concatenated_words(t) returns lower-case words, at
\* least one for every t; for the empty string it returns the one-element
\* sequence holding the empty word.
C4_AtLeastOneLowerCaseWord ==
    call = "split_concatenated_words" =>
        /\ \A i \in 1..Len(result.value) : ~has_upper(result.value[i])
        /\ Len(result.value) >= 1
        /\ input.text = <<>> => result.value = << <<>> >>

C4_Witness ==
    /\ call = "split_concatenated_words"
    /\ input.text = <<>>
    /\ result.value = << <<>> >>

\* C5: the normalized_company of every record extract_company_from_email
\* returns has no upper-case letter and no leading or trailing whitespace.
C5_NormalizedKeyTrimmed ==
    (call = "extract_company_from_email" /\ ~result.raised) =>
        LET key == result.value.normalized_company
        IN  /\ ~has_upper(key)
            /\ key # <<>> => (key[1] \notin whitespace /\ key[Len(key)] \notin whitespace)

\* C6 as stated: for every non-empty domain d with an alphabetic character
\* left after TLD stripping, format_domain_as_display_name(d) is non-empty; the
\* display name is empty only when the stripped domain yields no non-empty
\* words.
C6_AlphabeticDomainHasName ==
    call = "format_domain_as_display_name" =>
        LET label == after_last(strip_tld(input.text), ".")
        IN  /\ (input.text # <<>> /\ has_alpha(strip_tld(input.text)))
                 => result.value # <<>>
            /\ result.value = <<>> => (only_char(label, "-") \/ only_char(label, "_"))

\* C6 as amended: for every domain d whose last '.'-separated label after TLD
\* stripping holds an alphabetic character, format_domain_as_display_name(d) is
\* non-empty; the display name is empty only when that label yields no
\* non-empty words (it is empty, or all '-', or all '_').
C6_AlphabeticLabelHasName ==
    call = "format_domain_as_display_name" =>
        LET label == after_last(strip_tld(input.text), ".")
        IN  /\ has_alpha(label) => result.value # <<>>
            /\ result.value = <<>> => (only_char(label, "-") \/ only_char(label, "_"))

C6_Witness ==
    /\ call = "format_domain_as_display_name"
    /\ input.text = <<"a", ".", "e", "n", "g", ".", "c", "o">>
    /\ result.value = <<"E", "n", "g">>

\* C7: every stored user record carries company_domain equal to the domain
\* extracted from its email and company_display_name equal to
\* format_domain_as_display_name of that domain; signup sets both when it
\* creates the record (a signup that is not rejected stores its record), and no
\* later operation changes them.
C7_StoredCompanyFields ==
    /\ \A u \in users :
         LET d == extract_domain_from_email(u.email)
         IN  /\ ~d.raised
             /\ u.company_domain = Some(d.value)
             /\ u.company_display_name = Some(format_domain_as_display_name(d.value))
    /\ (request.op = "signup" /\ response.status \notin {400, 409, 422}) =>
         \E u \in users :
            /\ u.email = lower(request.email)
            /\ u.company_domain = Some(domain_of(u.email))

\* C8: with d = extract_domain_from_email(e) for an email e holding an '@',
\* extract_domain_from_email("x@" + d) returns d.
C8_ExtractDomainIdempotent ==
    call = "re_extract" =>
        /\ ~result.second.raised
        /\ result.second.value = result.first

C8_Witness ==
    /\ call = "re_extract"
    /\ input.text = <<"@", "B", "@", " ", "a">>
    /\ result.first = <<" ", "a">>
    /\ result.second = Return(<<" ", "a">>)

C10_FallbackSingleWord ==
    (/\ call = "split_concatenated_words"
     /\ suffix_matches(lower(input.text)) = {}
     /\ prefix_matches(lower(input.text)) = {}
     /\ \A i \in 2..Len(input.text) : ~isupper(input.text[i]))
    => result.value = <<lower(input.text)>>

C10_Witness ==
    /\ call = "split_concatenated_words"
    /\ input.text = <<"B", "a", "s">>
    /\ suffix_matches(lower(input.text)) = {}
    /\ prefix_matches(lower(input.text)) = {}
    /\ result.value = <<<<"b", "a", "s">>>>

tld_words == {tlds[i] : i \in DOMAIN tlds}

\* the listed TLDs a string ends with, character for character
tld_matches(d) == {w \in tld_words : endswith(d, w)}

\* C11 as stated: TLD stripping removes at most one suffix from the end of the
\* domain, the longest entry of the TLD list that the domain ends with;
\* when no entry matches, the domain is used unmodified; "foo.co.uk" gives
\* "Foo".
C11_LongestListedSuffixStripped ==
    call = "format_domain_as_display_name" =>
        LET d == input.text
            m == tld_matches(d)
        IN  /\ m # {} => result.name_after_tld = SubSeq(d, 1, Len(d) - Len(longest(m)))
            /\ m = {} => result.name_after_tld = d
            /\ d = <<"f", "o", "o", ".", "c", "o", ".", "u", "k">> => result.value = <<"F", "o", "o">>

\* C11 as amended: the entries are compared with the domain lower-cased; the
\* longest entry the lower-cased domain ends with is cut from the end of the
\* domain, once; when the lower-cased domain ends with no entry, the domain is
\* used unmodified; "foo.co.uk" gives "Foo".
C11_LongestSuffixStrippedIgnoringCase ==
    call = "format_domain_as_display_name" =>
        LET d == input.text
            m == tld_matches(lower(d))
        IN  /\ m # {} => result.name_after_tld = SubSeq(d, 1, Len(d) - Len(longest(m)))
            /\ m = {} => result.name_after_tld = d
            /\ d = <<"f", "o", "o", ".", "c", "o", ".", "u", "k">> => result.value = <<"F", "o", "o">>

C11_Witness ==
    /\ call = "format_domain_as_display_name"
    /\ input.text = <<"f", "o", "o", ".", "C", "O", ".", "U", "K">>
    /\ tld_matches(lower(input.text)) = {<<".", "c", "o", ".", "u", "k">>, <<".", "u", "k">>}
    /\ result.name_after_tld = <<"f", "o", "o">>
    /\ result.value = <<"F", "o", "o">>

\* the listed TLDs without their leading dot: "com", "co.uk", ...
bare_tlds == {Tail(w) : w \in tld_words}

\* C12 as stated: after TLD stripping the display name is built from the last
\* '.'-separated label only, and subdomain labels put in front of any domain
\* leave its display name unchanged; "eng.acmecorp.com" and "acmecorp.com"
\* both give "Acme Corp".
C12_SubdomainsNeverChangeName ==
    /\ call = "format_domain_as_display_name" =>
         /\ result.name_after_collapse = after_last(result.name_after_tld, ".")
         /\ result.value = format_domain_as_display_name(result.name_after_collapse)
         /\ input.text \in {<<"e", "n", "g", ".", "a", "c", "m", "e", "c", "o", "r", "p", ".", "c", "o", "m">>, <<"a", "c", "m", "e", "c", "o", "r", "p", ".", "c", "o", "m">>} =>
              result.value = <<"A", "c", "m", "e", " ", "C", "o", "r", "p">>
    /\ call = "format_with_subdomains" => result.second = result.first

\* C12 as amended: after TLD stripping the display name is built from the last
\* '.'-separated label only, and subdomain labels put in front of a domain
\* leave its display name unchanged unless the domain, lower-cased, is itself
\* a listed TLD without its leading dot ("com", "co.uk"); "eng.acmecorp.com"
\* and "acmecorp.com" both give "Acme Corp".
C12_SubdomainsKeepNameOfNonTld ==
    /\ call = "format_domain_as_display_name" =>
         /\ result.name_after_collapse = after_last(result.name_after_tld, ".")
         /\ result.value = format_domain_as_display_name(result.name_after_collapse)
         /\ input.text \in {<<"e", "n", "g", ".", "a", "c", "m", "e", "c", "o", "r", "p", ".", "c", "o", "m">>, <<"a", "c", "m", "e", "c", "o", "r", "p", ".", "c", "o", "m">>} =>
              result.value = <<"A", "c", "m", "e", " ", "C", "o", "r", "p">>
    /\ (call = "format_with_subdomains" /\ lower(input.text) \notin bare_tlds) =>
         result.second = result.first

C12_Witness ==
    /\ call = "format_with_subdomains"
    /\ input.text = <<"e", "n", "g", ".", "a", "c", "m", "e", "c", "o", "r", "p", ".", "c", "o", "m">>
    /\ result.labels = <<"m", "a", "i", "l", ".", "e", "n", "g">>
    /\ result.first = <<"A", "c", "m", "e", " ", "C", "o", "r", "p">>
    /\ result.second = <<"A", "c", "m", "e", " ", "C", "o", "r", "p">>

non_empty(seq) == SelectSeq(seq, LAMBDA w : w # <<>>)

RECURSIVE concat_all(_)
concat_all(seqs) ==
    IF Len(seqs) = 0 THEN <<>> ELSE seqs[1] \o concat_all(Tail(seqs))

\* word c is word w with its first character upper-cased and the rest lower-cased
capitalized_from(c, w) ==
    /\ Len(c) = Len(w)
    /\ \A j \in 1..Len(w) :
         c[j] = (IF j = 1 THEN char_upper(w[j]) ELSE char_lower(w[j]))

lower_each(s) == [i \in 1..Len(s) |-> char_lower(s[i])]

\* C14 as stated: for every token t the words of split_concatenated_words(t),
\* concatenated in order, are exactly t lower-cased.
C14_WordsConcatenateToLowerCased ==
    call = "split_concatenated_words" =>
        concat_all(result.value) = lower(input.text)

\* C14 as amended: the words, concatenated in order, are t lower-cased
\* whenever lower-casing t maps each character by itself (every ASCII token);
\* for every t they are t lower-cased one character at a time, and differ
\* from t lower-cased only where that has a final sigma and the words have a
\* plain one.
C14_WordsConcatenateToLowerCasedEach ==
    call = "split_concatenated_words" =>
        LET t == input.text
            joined == concat_all(result.value)
        IN  /\ lower(t) = lower_each(t) => joined = lower(t)
            /\ Len(joined) = Len(t)
            /\ \A i \in 1..Len(t) :
                 \/ joined[i] = lower(t)[i]
                 \/ (lower(t)[i] = final_sigma /\ joined[i] = lower_each(t)[i])

C14_Witness ==
    /\ call = "split_concatenated_words"
    /\ input.text = <<"a", "B", "Σ", "s">>
    /\ lower(input.text) = lower_each(input.text)
    /\ result.value = <<<<"a">>, <<"b">>, <<"σ", "s">>>>

\* the requests that passed validation, by the lower-cased email they carry
validated(e) ==
    {p \in Requests :
        /\ sessions[p].pc # "idle"
        /\ lower(sessions[p].request.email) = e
        /\ ~(sessions[p].pc = "done" /\ sessions[p].response.status \in {400, 422})}

\* C15: once the concurrent signup requests that carry one email (compared
\* lower-cased) and pass validation have all ended, exactly one of them has
\* created a user record with that email, every other has ended with 409
\* 'User with this email already exists', and the store holds a single
\* record for that email; at no time does it hold two.
C15_OneSignupPerEmailWins ==
    \A e \in {lower(m) : m \in ConcurrentEmails} :
        /\ Cardinality({u \in users : u.email = e}) <= 1
        /\ (validated(e) # {} /\ \A p \in validated(e) : sessions[p].pc = "done") =>
             /\ Cardinality({u \in users : u.email = e}) = 1
             /\ \E w \in validated(e) :
                  /\ sessions[w].response.status = 201
                  /\ \A p \in validated(e) \ {w} :
                       sessions[p].response =
                           Respond(409, "User with this email already exists")

====
